---- MODULE Spec2Model ----
(***************************************************************************)
(* Platform bring-up of plat-ls (core/arch/arm/plat-ls/main.c):            *)
(*   - plat_cpu_reset_late : secondary release and CSU lock-down           *)
(*   - get_gic_offset / main_init_gic : GIC base discovery and init        *)
(*   - tee_otp_get_hw_unique_key : hardware unique key retrieval           *)
(* 32-bit words are kept as four bytes, most significant first, so that    *)
(* byte swapping, OR and bit tests are computed on the full width.         *)
(***************************************************************************)
EXTENDS Integers, Sequences, FiniteSets, TLC

VARIABLES
    \* ---- plat_cpu_reset_late ----
    mem,        \* device registers (CSU slots, DCFG scratch/release), as the CPU stores them
    mem0,       \* register contents at power-on (history)
    snap,       \* register contents when core 0 first returned (history)
    pc,         \* per core: position inside plat_cpu_reset_late
    addr,       \* per core: the local loop variable addr
    calls,      \* per core: number of invocations started
    wlog,       \* per core: set of register addresses the core has issued a write to
    dsb_done,   \* a dsb() has been executed
    sev_count,  \* number of sev() wake events issued
    cfg_boot_secondary, \* build flag CFG_BOOT_SECONDARY_REQUEST
    csl_start,  \* the build's CSU_CSL_START
    csl_end,    \* the build's CSU_CSL_END
    written,    \* addresses written by the grant loop, the restrict writes, the lock loop (history)
    halted,     \* panic() has been reached
    \* ---- get_gic_offset / main_init_gic ----
    flavor,     \* build variant: "ls1043ardb", "gicv2" (generic, no CFG_ARM_GICV3), "gicv3"
    xlate,      \* physical addresses the MMU tables currently translate
    va_off,     \* distance from a mapped physical address to its virtual address
    io,         \* contents of the SVR and GIC400 alignment registers, as the CPU loads them
    gpc,        \* position inside main_init_gic / get_gic_offset
    ccsr_svr,   \* local of get_gic_offset
    gic_align,  \* local of get_gic_offset
    val,        \* local of get_gic_offset
    gicc_base,  \* local of main_init_gic
    gicd_base,  \* local of main_init_gic
    base_pa,    \* physical addresses handed to phys_to_virt for the two bases (history)
    map_calls,  \* per register: number of core_mmu_add_mapping calls (history)
    xlate_calls,\* per register: number of phys_to_virt calls (history)
    panic_site, \* which check reached panic() (history)
    gic_data,   \* the static gic_data, as gic_init() received it
    itr_inited, \* itr_init() has been called
    \* ---- tee_otp_get_hw_unique_key ----
    hwkey,      \* the caller's memory at hwkey: data[] followed by the bytes behind it
    hwkey0,     \* that memory when the current invocation was entered (history)
    hw_unq_key, \* the local scratch buffer
    ret,        \* local int ret
    res,        \* local TEE_Result res
    hpc,        \* position inside tee_otp_get_hw_unique_key
    smc_calls,  \* secure monitor calls issued by the current invocation (history)
    huk_calls,  \* number of invocations started
    \* ---- boot handler table ----
    handlers,   \* the static const struct thread_handlers handlers
    cfg_with_arm_tf, \* build flag CFG_WITH_ARM_TRUSTED_FW
    hook_log,   \* the hooks the TEE core has invoked through the table, in order (history)
    \* ---- main_secondary_init_gic ----
    spc,        \* per core: position inside main_secondary_init_gic
    cpu_if,     \* per core: the banked interrupt-controller registers of that core
    cpu_if0,    \* cpu_if before any core entered main_secondary_init_gic (history)
    primary_ready \* the primary core has finished its boot-time initialization

csu_vars == <<mem, mem0, snap, pc, addr, calls, wlog, dsb_done, sev_count,
              cfg_boot_secondary, csl_start, csl_end, written>>

gic_vars == <<flavor, xlate, va_off, io, gpc, ccsr_svr, gic_align, val,
              gicc_base, gicd_base, base_pa, map_calls, xlate_calls,
              panic_site, gic_data, itr_inited>>

huk_vars == <<hwkey, hwkey0, hw_unq_key, ret, res, hpc, smc_calls, huk_calls>>

tbl_vars == <<handlers, cfg_with_arm_tf, hook_log>>

sec_vars == <<spc, cpu_if, cpu_if0, primary_ready>>

vars == <<csu_vars, gic_vars, huk_vars, tbl_vars, sec_vars, halted>>

(***************************************************************************)
(* Bounds of the model.                                                    *)
(***************************************************************************)
NumCores == 2
MaxCalls == 2
MaxKeyCalls == 2

\* invocations through the boot handler table that are followed
MaxDispatch == 2
GuardLen == 2

Cores == 0 .. (NumCores - 1)

(***************************************************************************)
(* 32-bit words.                                                           *)
(***************************************************************************)
Byte == 0 .. 255

W(b3, b2, b1, b0) == <<b3, b2, b1, b0>>

ZeroWord == W(0, 0, 0, 0)

RECURSIVE OrBits(_, _, _)
OrBits(a, b, n) ==
    IF n = 0 THEN 0
    ELSE (IF a % 2 = 1 \/ b % 2 = 1 THEN 1 ELSE 0)
         + 2 * OrBits(a \div 2, b \div 2, n - 1)

RECURSIVE AndBits(_, _, _)
AndBits(a, b, n) ==
    IF n = 0 THEN 0
    ELSE (IF a % 2 = 1 /\ b % 2 = 1 THEN 1 ELSE 0)
         + 2 * AndBits(a \div 2, b \div 2, n - 1)

Or32(x, y) == [i \in 1 .. 4 |-> OrBits(x[i], y[i], 8)]

And32(x, y) == [i \in 1 .. 4 |-> AndBits(x[i], y[i], 8)]

\* x with the bits of m cleared
Clear32(x, m) == [i \in 1 .. 4 |-> x[i] - AndBits(x[i], m[i], 8)]

bswap32(x) == <<x[4], x[3], x[2], x[1]>>

(***************************************************************************)
(* Platform constants used by plat_cpu_reset_late.                         *)
(***************************************************************************)
CSU_BASE == 22085632              \* 0x01510000
CSU_CSL_START == 0
CSU_CSL_END == 232                \* 0xE8
CSU_CSL30 == 120                  \* 0x78
CSU_CSL37 == 148                  \* 0x94
CSU_ACCESS_ALL == W(0, 255, 0, 255)       \* 0x00FF00FF
CSU_ACCESS_SEC_ONLY == W(0, 63, 0, 63)    \* 0x003F003F
CSU_SETTING_LOCK == W(1, 0, 1, 0)         \* 0x01000100
DCFG_BASE == 32374784             \* 0x01EE0000
DCFG_SCRATCHRW1 == 512            \* 0x200
DCFG_CCSR_BRR == 228              \* 0xE4
TEE_LOAD_ADDR == W(188, 0, 0, 0)

\* the slots the two loops walk: START, START+4, ..., END-4
CsuSlots == {CSU_BASE + o : o \in {x \in CSU_CSL_START .. (CSU_CSL_END - 1) :
                                     (x - CSU_CSL_START) % 4 = 0}}

\* every CSU register of the model: the slots and the word at CSU_CSL_END
CsuRegs == CsuSlots \cup {CSU_BASE + CSU_CSL_END}

DcfgRegs == {DCFG_BASE + DCFG_SCRATCHRW1, DCFG_BASE + DCFG_CCSR_BRR}

Regs == CsuRegs \cup DcfgRegs

(***************************************************************************)
(* Register access.  The CSU is a big-endian block: the device sees the    *)
(* byte-swapped image of what the core stores.  Each word holds two        *)
(* 16-bit fields; a field whose lock bit is set ignores further writes.    *)
(***************************************************************************)
DevView(w) == bswap32(w)

\* the two fields of a device word, as byte index pairs
Fields == {<<1, 2>>, <<3, 4>>}

FieldLocked(d, f) == d[f[1]] % 2 = 1

CsuStore(old, new) ==
    LET d  == DevView(old)
        n  == DevView(new)
        r  == [i \in 1 .. 4 |->
                 IF i \in {1, 2}
                 THEN (IF FieldLocked(d, <<1, 2>>) THEN d[i] ELSE n[i])
                 ELSE (IF FieldLocked(d, <<3, 4>>) THEN d[i] ELSE n[i])]
    IN  bswap32(r)

read32(m, a) == m[a]

write32(m, v, a) ==
    IF a \in CsuRegs THEN [m EXCEPT ![a] = CsuStore(m[a], v)]
    ELSE [m EXCEPT ![a] = v]

get_core_pos(c) == c

(***************************************************************************)
(* Values written by plat_cpu_reset_late.                                  *)
(***************************************************************************)
EntryValue == bswap32(TEE_LOAD_ADDR)

ReleaseValue == bswap32(W(0, 0, 0, 2))        \* 0x1 << 1, cpu1

GrantValueNoSwap == CSU_ACCESS_ALL

GrantValue == bswap32(CSU_ACCESS_ALL)

RestrictValueNoSwap == CSU_ACCESS_SEC_ONLY

RestrictValue == bswap32(CSU_ACCESS_SEC_ONLY)

LockValueNoSwap(old) == Or32(old, CSU_SETTING_LOCK)

LockValue(old) == Or32(old, bswap32(CSU_SETTING_LOCK))

IsPrimaryInverted(c) == get_core_pos(c) # 0

IsPrimary(c) == ~(get_core_pos(c) # 0)

(***************************************************************************)
(* Power-on state of the CSU/DCFG registers.                               *)
(***************************************************************************)
ResetWords == {ZeroWord, bswap32(CSU_ACCESS_ALL), bswap32(W(0, 51, 0, 63))}

\* a slot some earlier boot stage may already have locked (wholly or one field)
PreLockAddrs == {CSU_BASE + CSU_CSL_START, CSU_BASE + CSU_CSL30}

PreLockWords == {bswap32(W(1, 63, 0, 255)), bswap32(W(1, 0, 1, 0))}

ResetMems ==
    {[a \in Regs |-> IF a \in CsuRegs THEN r ELSE ZeroWord] : r \in ResetWords}
    \cup
    {[a \in Regs |-> IF a = p THEN w ELSE IF a \in CsuRegs THEN r ELSE ZeroWord] :
        r \in ResetWords, p \in PreLockAddrs, w \in PreLockWords}

(***************************************************************************)
(* tee_otp_get_hw_unique_key: constants and helpers.                       *)
(***************************************************************************)
HW_UNIQUE_KEY_LENGTH == 16                \* sizeof(hwkey->data)
TEE_SUCCESS == W(0, 0, 0, 0)              \* 0x00000000
TEE_ERROR_SECURITY == W(255, 255, 0, 15)  \* 0xFFFF000F

\* byte strings of length n: byte i is (a * i + b) mod 256
Fill(n, a, b) == [i \in 1 .. n |-> (a * i + b) % 256]

\* what the scratch buffer may hold (stack garbage, or what the monitor stored)
ScratchFills == {Fill(HW_UNIQUE_KEY_LENGTH, a, b) : a \in {0, 1, 37}, b \in {0, 165}}

\* what the caller's memory may hold before the call
CallerFills == {Fill(HW_UNIQUE_KEY_LENGTH + GuardLen, a, b) : a \in {0, 3}, b \in {0, 90}}

\* values get_hw_unique_key may return (int)
RetCodes == {-2147483647, -2, -1, 0, 1, 2147483647}

memcpyShort(dst, src, n) ==
    [i \in 1 .. Len(dst) |-> IF i <= n - 1 THEN src[i] ELSE dst[i]]

\* memcpy(dst, src, n)
memcpy(dst, src, n) ==
    [i \in 1 .. Len(dst) |-> IF i <= n THEN src[i] ELSE dst[i]]

KeyFetchFailedOnlyMinusOne(r) == r = -1

\* if (ret < 0)
KeyFetchFailed(r) == r < 0

\* tee_otp_get_hw_unique_key has not been entered
HukIdle ==
    /\ hwkey = <<>>
    /\ hwkey0 = <<>>
    /\ hw_unq_key = <<>>
    /\ ret = 0
    /\ res = "unset"
    /\ hpc = "idle"
    /\ smc_calls = 0
    /\ huk_calls = 0

(***************************************************************************)
(* The boot handler table (static const struct thread_handlers handlers).  *)
(***************************************************************************)
PowerHooks == {"cpu_on", "cpu_off", "cpu_suspend", "cpu_resume", "system_off",
               "system_reset"}

Hooks == {"std_smc", "fast_smc", "nintr"} \cup PowerHooks

thread_handlers_stubbed(tf) ==
    [h \in Hooks |->
        CASE h = "std_smc" -> "tee_entry_std"
          [] h = "fast_smc" -> "tee_entry_fast"
          [] h = "nintr" -> "main_fiq"
          [] h = "cpu_on" -> IF tf THEN "cpu_on_handler" ELSE "pm_panic"
          [] OTHER -> "pm_do_nothing"]

\* the initializer of handlers, for a build with (tf) or without ARM trusted firmware
thread_handlers(tf) ==
    [h \in Hooks |->
        CASE h = "std_smc" -> "tee_entry_std"
          [] h = "fast_smc" -> "tee_entry_fast"
          [] h = "nintr" -> "main_fiq"
          [] h = "cpu_on" -> IF tf THEN "cpu_on_handler" ELSE "pm_panic"
          [] OTHER -> IF tf THEN "pm_do_nothing" ELSE "pm_panic"]

\* functions that end in panic(): main_fiq (this file) and the pm_panic stub
FatalStop == {"main_fiq", "pm_panic"}

\* no grant, restrict or lock write has been issued
NoWrites == [grant |-> {}, restrict |-> {}, lock |-> {}]

\* the table is not in use
TblIdle ==
    /\ handlers = thread_handlers(FALSE)
    /\ cfg_with_arm_tf = FALSE
    /\ hook_log = <<>>

\* no core is inside main_secondary_init_gic
SecIdle ==
    /\ spc = [c \in Cores |-> "idle"]
    /\ cpu_if = [c \in Cores |-> <<>>]
    /\ cpu_if0 = cpu_if
    /\ primary_ready = FALSE

\* main_init_gic has not been entered
GicIdle ==
    /\ flavor = "gicv2"
    /\ xlate = {}
    /\ va_off = 0
    /\ io = <<>>
    /\ gpc = "idle"
    /\ ccsr_svr = 0
    /\ gic_align = 0
    /\ val = ZeroWord
    /\ gicc_base = 0
    /\ gicd_base = 0
    /\ base_pa = <<0, 0>>
    /\ map_calls = <<>>
    /\ xlate_calls = <<>>
    /\ panic_site = "none"
    /\ gic_data = [inited |-> FALSE, gicc_base |-> 0, gicd_base |-> 0]
    /\ itr_inited = FALSE

InitCsu ==
    /\ GicIdle
    /\ HukIdle
    /\ TblIdle
    /\ SecIdle
    /\ mem \in ResetMems
    /\ mem0 = mem
    /\ snap = mem
    /\ pc = [c \in Cores |-> "idle"]
    /\ addr = [c \in Cores |-> 0]
    /\ calls = [c \in Cores |-> 0]
    /\ wlog = [c \in Cores |-> {}]
    /\ dsb_done = FALSE
    /\ sev_count = 0
    /\ csl_start = CSU_CSL_START
    /\ csl_end = CSU_CSL_END
    /\ written = NoWrites
    /\ cfg_boot_secondary \in BOOLEAN
    /\ halted = FALSE

(***************************************************************************)
(* plat_cpu_reset_late, one action per statement.                          *)
(***************************************************************************)
SequencerStepsReleaseFirst == <<"release", "scratch", "dsb", "sev">>

\* the statements of lines 105-112, in program order
SequencerSteps == <<"scratch", "release", "dsb", "sev">>

ConfiguratorStepsLockFirst ==
    <<"grant_init", "grant", "lock_init", "lock", "restrict30", "restrict37">>

\* the statements of lines 118-135, in program order
ConfiguratorSteps ==
    <<"grant_init", "grant", "restrict30", "restrict37", "lock_init", "lock">>

BodyStepsConfiguratorFirst(sec) ==
    IF sec THEN ConfiguratorSteps \o SequencerSteps ELSE ConfiguratorSteps

\* the body of if (!get_core_pos()) { ... }, with (sec) or without CFG_BOOT_SECONDARY_REQUEST
BodySteps(sec) ==
    IF sec THEN SequencerSteps \o ConfiguratorSteps ELSE ConfiguratorSteps

\* the statement after statement p, "done" after the last one
StepAfter(p) ==
    LET s == BodySteps(cfg_boot_secondary)
        i == CHOOSE j \in DOMAIN s : s[j] = p
    IN  IF i = Len(s) THEN "done" ELSE s[i + 1]

\* core c moves on from statement p; the registers core 0 leaves behind at its
\* first return are recorded
Advance(c, p) ==
    /\ pc' = [pc EXCEPT ![c] = StepAfter(p)]
    /\ snap' = IF StepAfter(p) = "done" /\ c = 0 /\ calls[c] = 1 THEN mem' ELSE snap

LoopDoneInclusive(a) == a = CSU_BASE + csl_end + 4

\* the loop condition addr != CSU_BASE + CSU_CSL_END has become false
LoopDone(a) == a = CSU_BASE + csl_end

\* a core enters plat_cpu_reset_late: each core once after its reset; core 0
\* may be made to run it again (up to MaxCalls times in all)
Call(c) ==
    /\ ~halted
    /\ pc[c] \in {"idle", "done"}
    /\ UNCHANGED <<gic_vars, huk_vars, tbl_vars, sec_vars>>
    /\ calls[c] < (IF c = 0 THEN MaxCalls ELSE 1)
    /\ pc' = [pc EXCEPT ![c] = "check"]
    /\ calls' = [calls EXCEPT ![c] = @ + 1]
    /\ UNCHANGED <<mem, mem0, snap, addr, wlog, dsb_done, sev_count,
                   cfg_boot_secondary, csl_start, csl_end, written, halted>>

\* if (!get_core_pos())
CheckCore(c) ==
    /\ ~halted
    /\ pc[c] = "check"
    /\ UNCHANGED <<gic_vars, huk_vars, tbl_vars, sec_vars>>
    /\ pc' = [pc EXCEPT ![c] =
                IF IsPrimary(c) THEN BodySteps(cfg_boot_secondary)[1] ELSE "done"]
    /\ UNCHANGED <<mem, mem0, snap, addr, calls, wlog, dsb_done, sev_count,
                   cfg_boot_secondary, csl_start, csl_end, written, halted>>

\* write32(__compiler_bswap32(TEE_LOAD_ADDR), DCFG_BASE + DCFG_SCRATCHRW1)
WriteScratch(c) ==
    /\ ~halted
    /\ pc[c] = "scratch"
    /\ UNCHANGED <<gic_vars, huk_vars, tbl_vars, sec_vars>>
    /\ mem' = write32(mem, EntryValue, DCFG_BASE + DCFG_SCRATCHRW1)
    /\ wlog' = [wlog EXCEPT ![c] = @ \cup {DCFG_BASE + DCFG_SCRATCHRW1}]
    /\ Advance(c, "scratch")
    /\ UNCHANGED <<mem0, addr, calls, dsb_done, sev_count,
                   cfg_boot_secondary, csl_start, csl_end, written, halted>>

\* write32(__compiler_bswap32(0x1 << 1), DCFG_BASE + DCFG_CCSR_BRR)
WriteRelease(c) ==
    /\ ~halted
    /\ pc[c] = "release"
    /\ UNCHANGED <<gic_vars, huk_vars, tbl_vars, sec_vars>>
    /\ mem' = write32(mem, ReleaseValue, DCFG_BASE + DCFG_CCSR_BRR)
    /\ wlog' = [wlog EXCEPT ![c] = @ \cup {DCFG_BASE + DCFG_CCSR_BRR}]
    /\ Advance(c, "release")
    /\ UNCHANGED <<mem0, addr, calls, dsb_done, sev_count,
                   cfg_boot_secondary, csl_start, csl_end, written, halted>>

\* dsb()
Dsb(c) ==
    /\ ~halted
    /\ pc[c] = "dsb"
    /\ UNCHANGED <<gic_vars, huk_vars, tbl_vars, sec_vars>>
    /\ dsb_done' = TRUE
    /\ mem' = mem
    /\ Advance(c, "dsb")
    /\ UNCHANGED <<mem0, addr, calls, wlog, sev_count,
                   cfg_boot_secondary, csl_start, csl_end, written, halted>>

\* sev()
Sev(c) ==
    /\ ~halted
    /\ pc[c] = "sev"
    /\ UNCHANGED <<gic_vars, huk_vars, tbl_vars, sec_vars>>
    /\ sev_count' = sev_count + 1
    /\ mem' = mem
    /\ Advance(c, "sev")
    /\ UNCHANGED <<mem0, addr, calls, wlog, dsb_done,
                   cfg_boot_secondary, csl_start, csl_end, written, halted>>

\* for (addr = CSU_BASE + CSU_CSL_START; ...
GrantInit(c) ==
    /\ ~halted
    /\ pc[c] = "grant_init"
    /\ UNCHANGED <<gic_vars, huk_vars, tbl_vars, sec_vars>>
    /\ addr' = [addr EXCEPT ![c] = CSU_BASE + csl_start]
    /\ mem' = mem
    /\ Advance(c, "grant_init")
    /\ UNCHANGED <<mem0, calls, wlog, dsb_done, sev_count,
                   cfg_boot_secondary, csl_start, csl_end, written, halted>>

\* a grant store that reads the slot back and panics on a mismatch
GrantStoreChecked(c) ==
    /\ mem' = write32(mem, GrantValue, addr[c])
    /\ halted' = (halted \/ read32(mem', addr[c]) # GrantValue)

\* write32(__compiler_bswap32(CSU_ACCESS_ALL), addr)
GrantStore(c) ==
    /\ mem' = write32(mem, GrantValue, addr[c])
    /\ halted' = halted

\* ...; addr != CSU_BASE + CSU_CSL_END; addr += 4) write32(ACCESS_ALL)
GrantLoop(c) ==
    /\ ~halted
    /\ pc[c] = "grant"
    /\ UNCHANGED <<gic_vars, huk_vars, tbl_vars, sec_vars>>
    /\ IF ~LoopDone(addr[c])
       THEN /\ GrantStore(c)
            /\ wlog' = [wlog EXCEPT ![c] = @ \cup {addr[c]}]
            /\ written' = [written EXCEPT !.grant = @ \cup {addr[c]}]
            /\ addr' = [addr EXCEPT ![c] = @ + 4]
            /\ UNCHANGED <<pc, snap>>
       ELSE /\ UNCHANGED <<mem, wlog, written, addr, halted>>
            /\ Advance(c, "grant")
    /\ UNCHANGED <<mem0, calls, dsb_done, sev_count, cfg_boot_secondary,
                   csl_start, csl_end>>

\* write32(__compiler_bswap32(CSU_ACCESS_SEC_ONLY), CSU_BASE + CSU_CSL30)
Restrict30(c) ==
    /\ ~halted
    /\ pc[c] = "restrict30"
    /\ UNCHANGED <<gic_vars, huk_vars, tbl_vars, sec_vars>>
    /\ mem' = write32(mem, RestrictValue, CSU_BASE + CSU_CSL30)
    /\ wlog' = [wlog EXCEPT ![c] = @ \cup {CSU_BASE + CSU_CSL30}]
    /\ written' = [written EXCEPT !.restrict = @ \cup {CSU_BASE + CSU_CSL30}]
    /\ Advance(c, "restrict30")
    /\ UNCHANGED <<mem0, addr, calls, dsb_done, sev_count,
                   cfg_boot_secondary, csl_start, csl_end, halted>>

\* write32(__compiler_bswap32(CSU_ACCESS_SEC_ONLY), CSU_BASE + CSU_CSL37)
Restrict37(c) ==
    /\ ~halted
    /\ pc[c] = "restrict37"
    /\ UNCHANGED <<gic_vars, huk_vars, tbl_vars, sec_vars>>
    /\ mem' = write32(mem, RestrictValue, CSU_BASE + CSU_CSL37)
    /\ wlog' = [wlog EXCEPT ![c] = @ \cup {CSU_BASE + CSU_CSL37}]
    /\ written' = [written EXCEPT !.restrict = @ \cup {CSU_BASE + CSU_CSL37}]
    /\ Advance(c, "restrict37")
    /\ UNCHANGED <<mem0, addr, calls, dsb_done, sev_count,
                   cfg_boot_secondary, csl_start, csl_end, halted>>

\* for (addr = CSU_BASE + CSU_CSL_START; ...
LockInit(c) ==
    /\ ~halted
    /\ pc[c] = "lock_init"
    /\ UNCHANGED <<gic_vars, huk_vars, tbl_vars, sec_vars>>
    /\ addr' = [addr EXCEPT ![c] = CSU_BASE + csl_start]
    /\ mem' = mem
    /\ Advance(c, "lock_init")
    /\ UNCHANGED <<mem0, calls, wlog, dsb_done, sev_count,
                   cfg_boot_secondary, csl_start, csl_end, written, halted>>

\* ...; addr != CSU_BASE + CSU_CSL_END; addr += 4)
\*     write32(read32(addr) | __compiler_bswap32(CSU_SETTING_LOCK), addr)
LockLoop(c) ==
    /\ ~halted
    /\ pc[c] = "lock"
    /\ UNCHANGED <<gic_vars, huk_vars, tbl_vars, sec_vars>>
    /\ IF ~LoopDone(addr[c])
       THEN /\ mem' = write32(mem, LockValue(read32(mem, addr[c])), addr[c])
            /\ wlog' = [wlog EXCEPT ![c] = @ \cup {addr[c]}]
            /\ written' = [written EXCEPT !.lock = @ \cup {addr[c]}]
            /\ addr' = [addr EXCEPT ![c] = @ + 4]
            /\ UNCHANGED <<pc, snap>>
       ELSE /\ UNCHANGED <<mem, wlog, written, addr>>
            /\ Advance(c, "lock")
    /\ UNCHANGED <<mem0, calls, dsb_done, sev_count, cfg_boot_secondary,
                   csl_start, csl_end, halted>>

plat_cpu_reset_late(c) ==
    \/ CheckCore(c)
    \/ WriteScratch(c)
    \/ WriteRelease(c)
    \/ Dsb(c)
    \/ Sev(c)
    \/ GrantInit(c)
    \/ GrantLoop(c)
    \/ Restrict30(c)
    \/ Restrict37(c)
    \/ LockInit(c)
    \/ LockLoop(c)

NextCsu == \E c \in Cores : Call(c) \/ plat_cpu_reset_late(c)

SpecCsu == InitCsu /\ [][NextCsu]_vars

(***************************************************************************)
(* get_gic_offset and main_init_gic.                                       *)
(***************************************************************************)
NXP_DCFG_ADDR == 32374784                 \* 0x01EE0000
NXP_SCFG_ADDR == 22478848                 \* 0x01570000
DCFG_SVR_OFFSET == 164                    \* 0x0A4
SCFG_GIC400_ADDR_ALIGN_OFFSET == 392      \* 0x0188
REV1_1 == 17                              \* 0x11
GIC_ADDR_BIT == 31
GIC_BASE == 20971520                      \* 0x01400000
GICC_4K_ADDR_OFFSET == 8192               \* 0x2000
GICD_4K_ADDR_OFFSET == 4096               \* 0x1000
GICC_64K_ADDR_OFFSET == 131072            \* 0x20000
GICD_64K_ADDR_OFFSET == 65536             \* 0x10000
GICC_OFFSET == 8192                       \* 0x2000
GICD_OFFSET == 4096                       \* 0x1000

SvrPa == NXP_DCFG_ADDR + DCFG_SVR_OFFSET

AlignPa == NXP_SCFG_ADDR + SCFG_GIC400_ADDR_ALIGN_OFFSET

IoRegs == {SvrPa, AlignPa}

GicPas == {GIC_BASE + GICC_4K_ADDR_OFFSET, GIC_BASE + GICD_4K_ADDR_OFFSET,
           GIC_BASE + GICC_64K_ADDR_OFFSET, GIC_BASE + GICD_64K_ADDR_OFFSET,
           GIC_BASE + GICC_OFFSET, GIC_BASE + GICD_OFFSET}

Flavors == {"ls1043ardb", "gicv2", "gicv3"}

\* where the MMU may place a mapped device page
VaOffsets == {0, 268435456}

\* SVR images as loaded by the core (the device value is the byte-swapped word):
\* 0x87920011 (rev 1.1), 0x87920010 (rev 1.0), and 0x11920010, whose revision
\* byte is 0x10 while its most significant byte is 0x11
SvrImages == {bswap32(W(135, 146, 0, 17)), bswap32(W(135, 146, 0, 16)),
              bswap32(W(17, 146, 0, 16))}

\* alignment register images: device values 0x80000000, 0x00000080, 0, 0xFFFFFFFF
AlignImages == {bswap32(W(128, 0, 0, 0)), bswap32(W(0, 0, 0, 128)), ZeroWord,
                W(255, 255, 255, 255)}

\* phys_to_virt(pa, MEM_AREA_IO_SEC): the virtual address, or 0 when unmapped
phys_to_virt(map, pa) == IF pa \in map THEN pa + va_off ELSE 0

\* the device registers as seen through their virtual addresses
VirtIo == [v \in {p + va_off : p \in IoRegs} |-> io[v - va_off]]

\* 1 << n, n in 0..31
Shl1(n) == [i \in 1 .. 4 |-> IF i = 4 - (n \div 8) THEN 2 ^ (n % 8) ELSE 0]

IsRev11WholeWord(v) == v = W(0, 0, 0, REV1_1)

\* (val & 0xff) == REV1_1
IsRev11(v) == And32(v, W(0, 0, 0, 255)) = W(0, 0, 0, REV1_1)

\* val & (1 << GIC_ADDR_BIT); 1 << 31 on a 32-bit int is evaluated by the
\* compilers in use as the word with only bit 31 set
AlignBitSet(v) == And32(v, Shl1(GIC_ADDR_BIT)) # ZeroWord

PcAfterRemapRetry(va, retry, next) == IF va = 0 THEN retry ELSE next

\* if (!va) panic(); after the second phys_to_virt
PcAfterRemap(va, retry, next) == IF va = 0 THEN "panic" ELSE next

GicdMissingIgnored(base) == FALSE

\* if (!gicd_base)
GicdMissing(base) == base = 0

InitGic ==
    /\ HukIdle
    /\ TblIdle
    /\ SecIdle
    /\ mem = [a \in Regs |-> ZeroWord]
    /\ mem0 = mem
    /\ snap = mem
    /\ pc = [c \in Cores |-> "idle"]
    /\ addr = [c \in Cores |-> 0]
    /\ calls = [c \in Cores |-> 0]
    /\ wlog = [c \in Cores |-> {}]
    /\ dsb_done = FALSE
    /\ sev_count = 0
    /\ csl_start = CSU_CSL_START
    /\ csl_end = CSU_CSL_END
    /\ written = NoWrites
    /\ cfg_boot_secondary = FALSE
    /\ halted = FALSE
    /\ flavor \in Flavors
    /\ xlate \in SUBSET (IoRegs \cup GicPas)
    /\ va_off \in VaOffsets
    /\ io \in [IoRegs -> SvrImages \cup AlignImages]
    /\ io[SvrPa] \in SvrImages
    /\ io[AlignPa] \in AlignImages
    /\ gpc = "idle"
    /\ ccsr_svr = 0
    /\ gic_align = 0
    /\ val = ZeroWord
    /\ gicc_base = 0
    /\ gicd_base = 0
    /\ base_pa = <<0, 0>>
    /\ map_calls = [r \in IoRegs |-> 0]
    /\ xlate_calls = [r \in IoRegs |-> 0]
    /\ panic_site = "none"
    /\ gic_data = [inited |-> FALSE, gicc_base |-> 0, gicd_base |-> 0]
    /\ itr_inited = FALSE

\* main_init_gic: vaddr_t gicc_base = 0x0; vaddr_t gicd_base = 0x0; variant dispatch
GicEnter ==
    /\ ~halted
    /\ gpc = "idle"
    /\ gicc_base' = 0
    /\ gicd_base' = 0
    /\ gpc' = IF flavor = "ls1043ardb" THEN "svr_xlate"
              ELSE IF flavor = "gicv2" THEN "gicc_generic"
              ELSE "gicd_generic"
    /\ UNCHANGED <<csu_vars, huk_vars, tbl_vars, sec_vars, halted, flavor, xlate, va_off, io, ccsr_svr,
                   gic_align, val, base_pa, map_calls, xlate_calls,
                   panic_site, gic_data, itr_inited>>

\* ccsr_svr = phys_to_virt(NXP_DCFG_ADDR + DCFG_SVR_OFFSET, ...); if (!ccsr_svr)
SvrXlate ==
    /\ ~halted
    /\ gpc = "svr_xlate"
    /\ ccsr_svr' = phys_to_virt(xlate, SvrPa)
    /\ xlate_calls' = [xlate_calls EXCEPT ![SvrPa] = @ + 1]
    /\ gpc' = IF ccsr_svr' = 0 THEN "svr_map" ELSE "svr_read"
    /\ UNCHANGED <<csu_vars, huk_vars, tbl_vars, sec_vars, halted, flavor, xlate, va_off, io, gic_align, val,
                   gicc_base, gicd_base, base_pa, map_calls, panic_site,
                   gic_data, itr_inited>>

\* core_mmu_add_mapping(MEM_AREA_IO_SEC, pa, REGISTER_SIZE), one register wide: may fail (IMSG only)
SvrMap ==
    /\ ~halted
    /\ gpc = "svr_map"
    /\ \E ok \in BOOLEAN : xlate' = IF ok THEN xlate \cup {SvrPa} ELSE xlate
    /\ map_calls' = [map_calls EXCEPT ![SvrPa] = @ + 1]
    /\ gpc' = "svr_xlate2"
    /\ UNCHANGED <<csu_vars, huk_vars, tbl_vars, sec_vars, halted, flavor, va_off, io, ccsr_svr, gic_align,
                   val, gicc_base, gicd_base, base_pa, xlate_calls,
                   panic_site, gic_data, itr_inited>>

\* ccsr_svr = phys_to_virt(...); if (!ccsr_svr) panic();
SvrXlate2 ==
    /\ ~halted
    /\ gpc = "svr_xlate2"
    /\ ccsr_svr' = phys_to_virt(xlate, SvrPa)
    /\ xlate_calls' = [xlate_calls EXCEPT ![SvrPa] = @ + 1]
    /\ gpc' = PcAfterRemap(ccsr_svr', "svr_map", "svr_read")
    /\ halted' = (gpc' = "panic")
    /\ panic_site' = IF gpc' = "panic" THEN "svr" ELSE panic_site
    /\ UNCHANGED <<csu_vars, huk_vars, tbl_vars, sec_vars, flavor, xlate, va_off, io, gic_align, val,
                   gicc_base, gicd_base, base_pa, map_calls, gic_data,
                   itr_inited>>

\* val = __compiler_bswap32(read32(ccsr_svr)); if ((val & 0xff) == REV1_1)
SvrRead ==
    /\ ~halted
    /\ gpc = "svr_read"
    /\ val' = bswap32(read32(VirtIo, ccsr_svr))
    /\ gpc' = IF IsRev11(val') THEN "align_xlate" ELSE "base_default"
    /\ UNCHANGED <<csu_vars, huk_vars, tbl_vars, sec_vars, halted, flavor, xlate, va_off, io, ccsr_svr,
                   gic_align, gicc_base, gicd_base, base_pa, map_calls,
                   xlate_calls, panic_site, gic_data, itr_inited>>

\* gic_align = phys_to_virt(NXP_SCFG_ADDR + SCFG_GIC400_ADDR_ALIGN_OFFSET, ...)
AlignXlate ==
    /\ ~halted
    /\ gpc = "align_xlate"
    /\ gic_align' = phys_to_virt(xlate, AlignPa)
    /\ xlate_calls' = [xlate_calls EXCEPT ![AlignPa] = @ + 1]
    /\ gpc' = IF gic_align' = 0 THEN "align_map" ELSE "align_read"
    /\ UNCHANGED <<csu_vars, huk_vars, tbl_vars, sec_vars, halted, flavor, xlate, va_off, io, ccsr_svr, val,
                   gicc_base, gicd_base, base_pa, map_calls, panic_site,
                   gic_data, itr_inited>>

\* core_mmu_add_mapping(MEM_AREA_IO_SEC, pa, 4): may fail (IMSG only)
AlignMap ==
    /\ ~halted
    /\ gpc = "align_map"
    /\ \E ok \in BOOLEAN : xlate' = IF ok THEN xlate \cup {AlignPa} ELSE xlate
    /\ map_calls' = [map_calls EXCEPT ![AlignPa] = @ + 1]
    /\ gpc' = "align_xlate2"
    /\ UNCHANGED <<csu_vars, huk_vars, tbl_vars, sec_vars, halted, flavor, va_off, io, ccsr_svr, gic_align,
                   val, gicc_base, gicd_base, base_pa, xlate_calls,
                   panic_site, gic_data, itr_inited>>

\* gic_align = phys_to_virt(...); if (!gic_align) panic();
AlignXlate2 ==
    /\ ~halted
    /\ gpc = "align_xlate2"
    /\ gic_align' = phys_to_virt(xlate, AlignPa)
    /\ xlate_calls' = [xlate_calls EXCEPT ![AlignPa] = @ + 1]
    /\ gpc' = PcAfterRemap(gic_align', "align_map", "align_read")
    /\ halted' = (gpc' = "panic")
    /\ panic_site' = IF gpc' = "panic" THEN "align" ELSE panic_site
    /\ UNCHANGED <<csu_vars, huk_vars, tbl_vars, sec_vars, flavor, xlate, va_off, io, ccsr_svr, val,
                   gicc_base, gicd_base, base_pa, map_calls, gic_data,
                   itr_inited>>

\* val = __compiler_bswap32(read32(gic_align)); if (val & (1 << GIC_ADDR_BIT))
AlignRead ==
    /\ ~halted
    /\ gpc = "align_read"
    /\ val' = bswap32(read32(VirtIo, gic_align))
    /\ gpc' = IF AlignBitSet(val') THEN "base_4k" ELSE "base_64k"
    /\ UNCHANGED <<csu_vars, huk_vars, tbl_vars, sec_vars, halted, flavor, xlate, va_off, io, ccsr_svr,
                   gic_align, gicc_base, gicd_base, base_pa, map_calls,
                   xlate_calls, panic_site, gic_data, itr_inited>>

\* *gicc_base = phys_to_virt(GIC_BASE + c_off, ...); *gicd_base = phys_to_virt(GIC_BASE + d_off, ...)
SetBases(at, c_off, d_off) ==
    /\ ~halted
    /\ gpc = at
    /\ gicc_base' = phys_to_virt(xlate, GIC_BASE + c_off)
    /\ gicd_base' = phys_to_virt(xlate, GIC_BASE + d_off)
    /\ base_pa' = <<GIC_BASE + c_off, GIC_BASE + d_off>>
    /\ gpc' = "check_gicd"
    /\ UNCHANGED <<csu_vars, huk_vars, tbl_vars, sec_vars, halted, flavor, xlate, va_off, io, ccsr_svr,
                   gic_align, val, map_calls, xlate_calls, panic_site,
                   gic_data, itr_inited>>

\* revision 1.1, alignment bit set
Base4k == SetBases("base_4k", GICC_4K_ADDR_OFFSET, GICD_4K_ADDR_OFFSET)

\* revision 1.1, alignment bit clear
Base64k == SetBases("base_64k", GICC_64K_ADDR_OFFSET, GICD_64K_ADDR_OFFSET)

\* any other revision
BaseDefault == SetBases("base_default", GICC_4K_ADDR_OFFSET, GICD_4K_ADDR_OFFSET)

get_gic_offset ==
    \/ SvrXlate
    \/ SvrMap
    \/ SvrXlate2
    \/ SvrRead
    \/ AlignXlate
    \/ AlignMap
    \/ AlignXlate2
    \/ AlignRead
    \/ Base4k
    \/ Base64k
    \/ BaseDefault

\* gicc_base = phys_to_virt(GIC_BASE + GICC_OFFSET, ...); if (!gicc_base) panic();
GenericGicc ==
    /\ ~halted
    /\ gpc = "gicc_generic"
    /\ gicc_base' = phys_to_virt(xlate, GIC_BASE + GICC_OFFSET)
    /\ base_pa' = <<GIC_BASE + GICC_OFFSET, base_pa[2]>>
    /\ gpc' = IF gicc_base' = 0 THEN "panic" ELSE "gicd_generic"
    /\ halted' = (gpc' = "panic")
    /\ panic_site' = IF gpc' = "panic" THEN "gicc" ELSE panic_site
    /\ UNCHANGED <<csu_vars, huk_vars, tbl_vars, sec_vars, flavor, xlate, va_off, io, ccsr_svr, gic_align,
                   val, gicd_base, map_calls, xlate_calls, gic_data,
                   itr_inited>>

\* gicd_base = phys_to_virt(GIC_BASE + GICD_OFFSET, ...)
GenericGicd ==
    /\ ~halted
    /\ gpc = "gicd_generic"
    /\ gicd_base' = phys_to_virt(xlate, GIC_BASE + GICD_OFFSET)
    /\ base_pa' = <<base_pa[1], GIC_BASE + GICD_OFFSET>>
    /\ gpc' = "check_gicd"
    /\ UNCHANGED <<csu_vars, huk_vars, tbl_vars, sec_vars, halted, flavor, xlate, va_off, io, ccsr_svr,
                   gic_align, val, gicc_base, map_calls, xlate_calls,
                   panic_site, gic_data, itr_inited>>

\* if (!gicd_base) panic();
CheckGicd ==
    /\ ~halted
    /\ gpc = "check_gicd"
    /\ gpc' = IF GicdMissing(gicd_base) THEN "panic" ELSE "gic_init"
    /\ halted' = (gpc' = "panic")
    /\ panic_site' = IF gpc' = "panic" THEN "gicd" ELSE panic_site
    /\ UNCHANGED <<csu_vars, huk_vars, tbl_vars, sec_vars, flavor, xlate, va_off, io, ccsr_svr, gic_align,
                   val, gicc_base, gicd_base, base_pa, map_calls, xlate_calls,
                   gic_data, itr_inited>>

\* gic_init(&gic_data, gicc_base, gicd_base)
GicInit ==
    /\ ~halted
    /\ gpc = "gic_init"
    /\ gic_data' = [inited |-> TRUE, gicc_base |-> gicc_base, gicd_base |-> gicd_base]
    /\ gpc' = "itr_init"
    /\ UNCHANGED <<csu_vars, huk_vars, tbl_vars, sec_vars, halted, flavor, xlate, va_off, io, ccsr_svr,
                   gic_align, val, gicc_base, gicd_base, base_pa, map_calls,
                   xlate_calls, panic_site, itr_inited>>

\* itr_init(&gic_data.chip)
ItrInit ==
    /\ ~halted
    /\ gpc = "itr_init"
    /\ itr_inited' = TRUE
    /\ gpc' = "done"
    /\ UNCHANGED <<csu_vars, huk_vars, tbl_vars, sec_vars, halted, flavor, xlate, va_off, io, ccsr_svr,
                   gic_align, val, gicc_base, gicd_base, base_pa, map_calls,
                   xlate_calls, panic_site, gic_data>>

main_init_gic ==
    \/ GicEnter
    \/ get_gic_offset
    \/ GenericGicc
    \/ GenericGicd
    \/ CheckGicd
    \/ GicInit
    \/ ItrInit

NextGic == main_init_gic

SpecGic == InitGic /\ [][NextGic]_vars

(***************************************************************************)
(* tee_otp_get_hw_unique_key, one action per statement.                    *)
(***************************************************************************)
\* the CSU and GIC parts are at rest
CsuGicAtRest ==
    /\ GicIdle
    /\ mem = [a \in Regs |-> ZeroWord]
    /\ mem0 = mem
    /\ snap = mem
    /\ pc = [c \in Cores |-> "idle"]
    /\ addr = [c \in Cores |-> 0]
    /\ calls = [c \in Cores |-> 0]
    /\ wlog = [c \in Cores |-> {}]
    /\ dsb_done = FALSE
    /\ sev_count = 0
    /\ csl_start = CSU_CSL_START
    /\ csl_end = CSU_CSL_END
    /\ written = NoWrites
    /\ cfg_boot_secondary = FALSE
    /\ halted = FALSE

InitHuk ==
    /\ CsuGicAtRest
    /\ TblIdle
    /\ SecIdle
    /\ hwkey \in CallerFills
    /\ hwkey0 = hwkey
    /\ hw_unq_key \in ScratchFills
    /\ ret = 0
    /\ res = "unset"
    /\ hpc = "idle"
    /\ smc_calls = 0
    /\ huk_calls = 0

\* entry: int ret = 0; uint8_t hw_unq_key[sizeof(hwkey->data)] (uninitialized)
HukEnter ==
    /\ hpc \in {"idle", "done"}
    /\ huk_calls < MaxKeyCalls
    /\ huk_calls' = huk_calls + 1
    /\ hwkey0' = hwkey
    /\ hw_unq_key' \in ScratchFills
    /\ ret' = 0
    /\ res' = "unset"
    /\ smc_calls' = 0
    /\ hpc' = "smc"
    /\ UNCHANGED <<csu_vars, gic_vars, tbl_vars, sec_vars, halted, hwkey>>

\* a call that is skipped once an earlier invocation has fetched the key
HukSmcCached ==
    /\ hpc = "smc"
    /\ IF huk_calls > 1
       THEN UNCHANGED <<ret, hw_unq_key, smc_calls>>
       ELSE /\ ret' \in RetCodes
            /\ hw_unq_key' \in ScratchFills
            /\ smc_calls' = smc_calls + 1
    /\ hpc' = "test"
    /\ UNCHANGED <<csu_vars, gic_vars, tbl_vars, sec_vars, halted, hwkey, hwkey0, res, huk_calls>>

\* ret = get_hw_unique_key(OPTEE_SMC_FAST_CALL_SIP_LS_HW_UNQ_KEY,
\*                         virt_to_phys(hw_unq_key), sizeof(hwkey->data))
HukSmc ==
    /\ hpc = "smc"
    /\ ret' \in RetCodes
    /\ hw_unq_key' \in ScratchFills
    /\ smc_calls' = smc_calls + 1
    /\ hpc' = "test"
    /\ UNCHANGED <<csu_vars, gic_vars, tbl_vars, sec_vars, halted, hwkey, hwkey0, res, huk_calls>>

\* if (ret < 0) { EMSG(...); res = TEE_ERROR_SECURITY; }
HukFail ==
    /\ hpc = "test"
    /\ KeyFetchFailed(ret)
    /\ res' = TEE_ERROR_SECURITY
    /\ hpc' = "return"
    /\ UNCHANGED <<csu_vars, gic_vars, tbl_vars, sec_vars, halted, hwkey, hwkey0, hw_unq_key, ret,
                   smc_calls, huk_calls>>

\* else { memcpy(&hwkey->data[0], hw_unq_key, sizeof(hwkey->data)); res = TEE_SUCCESS; }
HukCopy ==
    /\ hpc = "test"
    /\ ~KeyFetchFailed(ret)
    /\ hwkey' = memcpy(hwkey, hw_unq_key, HW_UNIQUE_KEY_LENGTH)
    /\ res' = TEE_SUCCESS
    /\ hpc' = "return"
    /\ UNCHANGED <<csu_vars, gic_vars, tbl_vars, sec_vars, halted, hwkey0, hw_unq_key, ret,
                   smc_calls, huk_calls>>

\* return res;
HukReturn ==
    /\ hpc = "return"
    /\ hpc' = "done"
    /\ UNCHANGED <<csu_vars, gic_vars, tbl_vars, sec_vars, halted, hwkey, hwkey0, hw_unq_key, ret,
                   res, smc_calls, huk_calls>>

tee_otp_get_hw_unique_key ==
    \/ HukEnter
    \/ HukSmc
    \/ HukFail
    \/ HukCopy
    \/ HukReturn

NextHuk == tee_otp_get_hw_unique_key

SpecHuk == InitHuk /\ [][NextHuk]_vars

(***************************************************************************)
(* Vocabulary of the CSU properties: what the device holds in a slot.      *)
(***************************************************************************)
SlotPermission(w) == Clear32(DevView(w), CSU_SETTING_LOCK)

SlotLocked(w) == And32(DevView(w), CSU_SETTING_LOCK) = CSU_SETTING_LOCK

SlotUnlocked(w) == And32(DevView(w), CSU_SETTING_LOCK) = ZeroWord

NoSlotLocked(m) == \A a \in CsuSlots : SlotUnlocked(m[a])

\* every field of every slot is one the device treats as locked
AllSlotsLocked(m) == \A a \in CsuSlots : \A f \in Fields : FieldLocked(DevView(m[a]), f)

SecureOnlySlots == {CSU_BASE + CSU_CSL30, CSU_BASE + CSU_CSL37}

\* core 0 has returned from plat_cpu_reset_late and is not inside it again
Core0Returned == pc[0] = "done"

(***************************************************************************)
(* C1: after plat_cpu_reset_late has run to completion on core 0 from a    *)
(* power-on state with no slot locked, every slot of                       *)
(* [CSU_CSL_START, CSU_CSL_END) other than CSL30 and CSL37 holds the       *)
(* "allow all" permission and has its lock bits set.                       *)
(***************************************************************************)
C1_OpenSlotsGrantedAndLocked ==
    (Core0Returned /\ NoSlotLocked(mem0)) =>
        \A a \in CsuSlots \ SecureOnlySlots :
            /\ SlotPermission(mem[a]) = CSU_ACCESS_ALL
            /\ SlotLocked(mem[a])

C1_Witness ==
    /\ Core0Returned
    /\ calls[0] = 1
    /\ NoSlotLocked(mem0)
    /\ \E a \in CsuSlots \ SecureOnlySlots : SlotPermission(mem0[a]) # CSU_ACCESS_ALL
    /\ Cardinality(CsuSlots \ SecureOnlySlots) = Cardinality(CsuSlots) - 2

(***************************************************************************)
(* C2: after plat_cpu_reset_late has run to completion on core 0 from a    *)
(* power-on state with no slot locked, CSL30 and CSL37 hold the            *)
(* "secure-only" permission and have their lock bits set.                  *)
(***************************************************************************)
C2_SecureSlotsRestrictedAndLocked ==
    (Core0Returned /\ NoSlotLocked(mem0)) =>
        \A a \in SecureOnlySlots :
            /\ SlotPermission(mem[a]) = CSU_ACCESS_SEC_ONLY
            /\ SlotLocked(mem[a])

C2_Witness ==
    /\ Core0Returned
    /\ calls[0] = 1
    /\ NoSlotLocked(mem0)
    /\ SecureOnlySlots \subseteq CsuSlots
    /\ \A a \in SecureOnlySlots : SlotPermission(mem0[a]) # CSU_ACCESS_SEC_ONLY

(***************************************************************************)
(* C3: once core 0 has completed a first invocation that left every slot   *)
(* locked, a further invocation leaves every CSU register exactly as that  *)
(* first invocation left it, never halts, and can always run on to its     *)
(* return.                                                                 *)
(***************************************************************************)
C3_SecondInvocationChangesNothing ==
    (calls[0] >= 2 /\ AllSlotsLocked(snap)) =>
        /\ \A a \in CsuRegs : mem[a] = snap[a]
        /\ ~halted
        /\ (pc[0] # "done" => ENABLED plat_cpu_reset_late(0))

C3_Witness ==
    /\ calls[0] = 2
    /\ Core0Returned
    /\ AllSlotsLocked(snap)
    /\ \E a \in CsuSlots : mem0[a] # snap[a]
    /\ \A a \in CsuSlots : a \in wlog[0]

(***************************************************************************)
(* C4: under any interleaving of cores invoking plat_cpu_reset_late, a     *)
(* core with non-zero index issues no register write at all and simply     *)
(* returns; every CSU or DCFG register that differs from its power-on      *)
(* value was written by core 0.                                            *)
(***************************************************************************)
C4_OnlyCore0Writes ==
    /\ \A c \in Cores \ {0} :
          /\ wlog[c] = {}
          /\ pc[c] \in {"idle", "check", "done"}
    /\ \A a \in Regs : mem[a] # mem0[a] => a \in wlog[0]

C4_Witness ==
    /\ \E c \in Cores \ {0} : calls[c] >= 1 /\ pc[c] = "done"
    /\ pc[0] = "lock"
    /\ \E a \in CsuSlots : mem[a] # mem0[a]
    /\ cfg_boot_secondary => mem[DCFG_BASE + DCFG_CCSR_BRR] # mem0[DCFG_BASE + DCFG_CCSR_BRR]

(***************************************************************************)
(* Vocabulary of the interrupt-controller properties.                      *)
(***************************************************************************)
\* the revision byte and the alignment bit of the device registers
ChipRevision == bswap32(io[SvrPa])[4]

AlignmentBit == bswap32(io[AlignPa])[1] >= 128

Pair4k == <<GIC_BASE + GICC_4K_ADDR_OFFSET, GIC_BASE + GICD_4K_ADDR_OFFSET>>

Pair64k == <<GIC_BASE + GICC_64K_ADDR_OFFSET, GIC_BASE + GICD_64K_ADDR_OFFSET>>

\* get_gic_offset has returned to main_init_gic
LocatorReturned ==
    /\ flavor = "ls1043ardb"
    /\ \/ gpc \in {"check_gicd", "gic_init", "itr_init", "done"}
       \/ panic_site = "gicd"

\* the outcome "halted, no base pair, interrupt controller untouched"
HaltedWithoutBases ==
    /\ halted
    /\ gpc = "panic"
    /\ base_pa = <<0, 0>>
    /\ gicc_base = 0
    /\ gicd_base = 0
    /\ ~gic_data.inited
    /\ ~itr_inited

PreSvrPcs == {"idle", "svr_xlate", "svr_map", "svr_xlate2"}

PreAlignPcs == PreSvrPcs \cup {"svr_read", "align_xlate", "align_map", "align_xlate2"}

\* gic_init() has been reached or called
GicInitReached == gpc \in {"gic_init", "itr_init", "done"} \/ gic_data.inited \/ itr_inited

(***************************************************************************)
(* C5: get_gic_offset hands both bases of the 4 KiB pair to phys_to_virt   *)
(* when the revision byte is 0x11 and bit 31 of the alignment register is  *)
(* set, both of the 64 KiB pair when the revision byte is 0x11 and the bit *)
(* is clear, and both of the 4 KiB pair for any other revision byte,       *)
(* whatever the alignment register holds; the two bases it returns are the *)
(* translations of that one pair.                                          *)
(***************************************************************************)
C5_LocatorSelectsPair ==
    LocatorReturned =>
        LET want == IF ChipRevision = REV1_1 /\ ~AlignmentBit THEN Pair64k ELSE Pair4k
        IN  /\ base_pa = want
            /\ gicc_base = phys_to_virt(xlate, want[1])
            /\ gicd_base = phys_to_virt(xlate, want[2])

C5_Witness ==
    /\ LocatorReturned
    /\ gpc = "done"
    /\ ChipRevision = REV1_1
    /\ ~AlignmentBit
    /\ io[AlignPa] # ZeroWord
    /\ base_pa = Pair64k
    /\ gicc_base # 0
    /\ gicd_base # 0

C5_Witness4kAligned ==
    /\ LocatorReturned
    /\ gpc = "done"
    /\ ChipRevision = REV1_1
    /\ AlignmentBit
    /\ base_pa = Pair4k

C5_Witness4kDefault ==
    /\ LocatorReturned
    /\ gpc = "done"
    /\ ChipRevision # REV1_1
    /\ ~AlignmentBit
    /\ base_pa = Pair4k

(***************************************************************************)
(* C6: for the chip-revision register, and for the alignment register when *)
(* the revision byte is 0x11, a translation that is null before and after  *)
(* the on-demand mapping attempt ends in the halt, with no base pair       *)
(* produced and the interrupt controller not initialized; each register    *)
(* sees at most one mapping attempt, and the alignment register is         *)
(* translated only when the revision byte is 0x11.                         *)
(***************************************************************************)
C6_UnmappedRegisterHalts ==
    /\ \A r \in IoRegs : map_calls[r] <= 1 /\ xlate_calls[r] <= 2
    /\ (xlate_calls[AlignPa] > 0 \/ map_calls[AlignPa] > 0) => ChipRevision = REV1_1
    /\ (flavor = "ls1043ardb" /\ gpc \notin PreSvrPcs /\ SvrPa \notin xlate) =>
          /\ HaltedWithoutBases
          /\ map_calls[SvrPa] = 1
    /\ (flavor = "ls1043ardb" /\ gpc \notin PreAlignPcs /\ SvrPa \in xlate
          /\ ChipRevision = REV1_1 /\ AlignPa \notin xlate) =>
          /\ HaltedWithoutBases
          /\ map_calls[AlignPa] = 1

C6_Witness ==
    /\ panic_site = "align"
    /\ HaltedWithoutBases
    /\ map_calls[SvrPa] = 1
    /\ map_calls[AlignPa] = 1
    /\ AlignPa \notin xlate

C6_WitnessSvr ==
    /\ panic_site = "svr"
    /\ HaltedWithoutBases
    /\ map_calls[SvrPa] = 1
    /\ SvrPa \notin xlate

(***************************************************************************)
(* C7: in every variant, a distributor base that resolved to null makes    *)
(* main_init_gic halt before gic_init or itr_init; gic_init never receives *)
(* a null distributor base.                                                *)
(***************************************************************************)
C7_NullDistributorHalts ==
    /\ GicInitReached => gicd_base # 0
    /\ gic_data.inited => gic_data.gicd_base # 0
    /\ (base_pa[2] # 0 /\ gicd_base = 0 /\ gpc # "check_gicd") =>
          /\ halted
          /\ panic_site = "gicd"
          /\ ~gic_data.inited
          /\ ~itr_inited

C7_Witness ==
    /\ flavor = "ls1043ardb"
    /\ panic_site = "gicd"
    /\ halted
    /\ gicc_base # 0
    /\ gicd_base = 0

C7_WitnessGicv3 ==
    /\ flavor = "gicv3"
    /\ panic_site = "gicd"
    /\ halted

C7_WitnessGicv2 ==
    /\ flavor = "gicv2"
    /\ panic_site = "gicd"
    /\ halted

(***************************************************************************)
(* C8: on every variant that needs a CPU-interface base (no system         *)
(* register support: the generic GICv2 variant and ls1043ardb), a          *)
(* CPU-interface base that resolved to null makes main_init_gic halt       *)
(* before gic_init; gic_init never receives a null CPU-interface base.     *)
(***************************************************************************)
C8_NullCpuInterfaceHalts ==
    flavor \in {"ls1043ardb", "gicv2"} =>
        /\ GicInitReached => gicc_base # 0
        /\ gic_data.inited => gic_data.gicc_base # 0

\* the same statement for the generic variant alone, where the check exists
C8_GenericVariantOnly ==
    flavor = "gicv2" =>
        /\ GicInitReached => gicc_base # 0
        /\ gic_data.inited => gic_data.gicc_base # 0

(***************************************************************************)
(* Vocabulary of the hardware-unique-key properties.                       *)
(***************************************************************************)
\* tee_otp_get_hw_unique_key has returned res
KeyCallReturned == hpc = "done"

KeyBytes == 1 .. HW_UNIQUE_KEY_LENGTH

BytesBehindKey == (HW_UNIQUE_KEY_LENGTH + 1) .. (HW_UNIQUE_KEY_LENGTH + GuardLen)

(***************************************************************************)
(* C9: when the secure monitor call returned a negative code,              *)
(* tee_otp_get_hw_unique_key returns TEE_ERROR_SECURITY and every byte at  *)
(* the destination equals its value before the call.                       *)
(***************************************************************************)
C9_FailureLeavesDestination ==
    (KeyCallReturned /\ ret < 0) =>
        /\ res = TEE_ERROR_SECURITY
        /\ \A i \in DOMAIN hwkey0 : hwkey[i] = hwkey0[i]
        /\ DOMAIN hwkey = DOMAIN hwkey0

C9_Witness ==
    /\ KeyCallReturned
    /\ ret < -1
    /\ res = TEE_ERROR_SECURITY
    /\ \E i \in KeyBytes : hw_unq_key[i] # hwkey[i]

(***************************************************************************)
(* C10: when the secure monitor call did not return a negative code,       *)
(* tee_otp_get_hw_unique_key returns TEE_SUCCESS, the destination's key    *)
(* bytes equal the first HW_UNIQUE_KEY_LENGTH bytes of the scratch buffer  *)
(* as the call left it, and no byte behind them is written.                *)
(***************************************************************************)
C10_SuccessCopiesKey ==
    (KeyCallReturned /\ ~(ret < 0)) =>
        /\ res = TEE_SUCCESS
        /\ \A i \in KeyBytes : hwkey[i] = hw_unq_key[i]
        /\ \A i \in BytesBehindKey : hwkey[i] = hwkey0[i]
        /\ Len(hw_unq_key) = HW_UNIQUE_KEY_LENGTH

C10_Witness ==
    /\ KeyCallReturned
    /\ ret > 0
    /\ res = TEE_SUCCESS
    /\ \A i \in KeyBytes : hwkey[i] # hwkey0[i]
    /\ \E i \in BytesBehindKey : hwkey[i] # hw_unq_key[1]

(***************************************************************************)
(* The boot handler table in use: the TEE core obtains the table with      *)
(* generic_boot_get_handlers() and calls through its members.              *)
(***************************************************************************)
\* generic_boot_get_handlers(): return &handlers
generic_boot_get_handlers == handlers

\* what became of the last call through the table
LastHook == hook_log[Len(hook_log)]

HookRunning == hook_log # <<>> /\ LastHook.state = "running"

InitTbl ==
    /\ GicIdle
    /\ HukIdle
    /\ SecIdle
    /\ mem = [a \in Regs |-> ZeroWord]
    /\ mem0 = mem
    /\ snap = mem
    /\ pc = [c \in Cores |-> "idle"]
    /\ addr = [c \in Cores |-> 0]
    /\ calls = [c \in Cores |-> 0]
    /\ wlog = [c \in Cores |-> {}]
    /\ dsb_done = FALSE
    /\ sev_count = 0
    /\ csl_start = CSU_CSL_START
    /\ csl_end = CSU_CSL_END
    /\ written = NoWrites
    /\ cfg_boot_secondary \in BOOLEAN
    /\ halted = FALSE
    /\ cfg_with_arm_tf \in BOOLEAN
    /\ handlers = thread_handlers(cfg_with_arm_tf)
    /\ hook_log = <<>>

\* the TEE core calls generic_boot_get_handlers()->h
InvokeHook(h) ==
    /\ ~halted
    /\ ~HookRunning
    /\ Len(hook_log) < MaxDispatch
    /\ hook_log' = Append(hook_log,
                          [hook |-> h, fn |-> generic_boot_get_handlers[h],
                           state |-> "running"])
    /\ UNCHANGED <<csu_vars, gic_vars, huk_vars, sec_vars, halted, handlers,
                   cfg_with_arm_tf>>

\* the function called ends in panic()
HookPanics ==
    /\ ~halted
    /\ HookRunning
    /\ hook_log' = [hook_log EXCEPT ![Len(hook_log)].state = "halted"]
    /\ halted' = TRUE
    /\ UNCHANGED <<csu_vars, gic_vars, huk_vars, sec_vars, handlers,
                   cfg_with_arm_tf>>

\* static void main_fiq(void) { panic(); }
main_fiq ==
    /\ HookRunning
    /\ LastHook.fn = "main_fiq"
    /\ HookPanics

\* the pm_panic stub of the TEE core
pm_panic ==
    /\ HookRunning
    /\ LastHook.fn = "pm_panic"
    /\ HookPanics

\* every other member returns to the TEE core
HookReturns ==
    /\ ~halted
    /\ HookRunning
    /\ LastHook.fn \notin FatalStop
    /\ hook_log' = [hook_log EXCEPT ![Len(hook_log)].state = "returned"]
    /\ UNCHANGED <<csu_vars, gic_vars, huk_vars, sec_vars, halted, handlers,
                   cfg_with_arm_tf>>

NextTbl ==
    \/ \E h \in Hooks : InvokeHook(h)
    \/ main_fiq
    \/ pm_panic
    \/ HookReturns

SpecTbl == InitTbl /\ [][NextTbl]_vars

(***************************************************************************)
(* C11: in a build without ARM trusted firmware the members cpu_off,       *)
(* cpu_suspend, cpu_resume, system_off and system_reset of the boot        *)
(* handler table are the fatal-stop handler, and so is cpu_on when no      *)
(* secondary-release support is compiled in; a call through any of them    *)
(* halts the system.  The table is never modified: every member that was   *)
(* called through is still the function that was called.                   *)
(***************************************************************************)
StubbedPowerHooks == PowerHooks \ {"cpu_on"}

C11_NoFirmwarePowerHooksAreFatal ==
    /\ ~cfg_with_arm_tf =>
        /\ \A h \in StubbedPowerHooks : handlers[h] = "pm_panic"
        /\ ~cfg_boot_secondary => handlers["cpu_on"] = "pm_panic"
        /\ \A i \in DOMAIN hook_log :
              (hook_log[i].hook \in PowerHooks /\ hook_log[i].state # "running")
                  => (hook_log[i].state = "halted" /\ halted)
    /\ DOMAIN handlers = Hooks
    /\ \A i \in DOMAIN hook_log : hook_log[i].fn = handlers[hook_log[i].hook]

C11_Witness ==
    /\ ~cfg_with_arm_tf
    /\ ~cfg_boot_secondary
    /\ Len(hook_log) = MaxDispatch
    /\ hook_log[1].state = "returned"
    /\ LastHook.hook = "cpu_on"
    /\ LastHook.state = "halted"
    /\ halted

(***************************************************************************)
(* main_secondary_init_gic: gic_cpu_init(&gic_data), one action per        *)
(* register write of the driver.  The three registers it writes            *)
(* (GICD_IGROUPR0, GICC_PMR, GICC_CTLR) are banked per core.               *)
(***************************************************************************)
GICD_IGROUPR0_PERCPU == W(255, 255, 0, 255)

GICC_PMR_NS == W(0, 0, 0, 128)

GICC_CTLR_ENABLE == W(0, 0, 0, 11)

\* a bank after reset, and one left behind by earlier firmware
ResetBanks ==
    { [igroupr0 |-> ZeroWord, pmr |-> ZeroWord, ctlr |-> ZeroWord],
      [igroupr0 |-> W(255, 255, 255, 255), pmr |-> W(0, 0, 0, 248),
       ctlr |-> W(0, 0, 0, 1)] }

BankOfShared(c) == 0

\* the register bank an access by core c reaches
BankOf(c) == c

\* the three writes of gic_cpu_init, as functions of the bank they reach
WriteIgroupr(bank) == [bank EXCEPT !.igroupr0 = GICD_IGROUPR0_PERCPU]

WritePmr(bank) == [bank EXCEPT !.pmr = GICC_PMR_NS]

WriteCtlr(bank) == [bank EXCEPT !.ctlr = GICC_CTLR_ENABLE]

\* the interrupt controller as a completed main_init_gic leaves it (generic variants)
GicInitialised ==
    /\ flavor \in {"gicv2", "gicv3"}
    /\ xlate = IoRegs \cup GicPas
    /\ va_off \in VaOffsets
    /\ io = [r \in IoRegs |-> ZeroWord]
    /\ gpc = "done"
    /\ ccsr_svr = 0
    /\ gic_align = 0
    /\ val = ZeroWord
    /\ gicc_base = IF flavor = "gicv3" THEN 0
                   ELSE phys_to_virt(xlate, GIC_BASE + GICC_OFFSET)
    /\ gicd_base = phys_to_virt(xlate, GIC_BASE + GICD_OFFSET)
    /\ base_pa = <<IF flavor = "gicv3" THEN 0 ELSE GIC_BASE + GICC_OFFSET,
                   GIC_BASE + GICD_OFFSET>>
    /\ map_calls = [r \in IoRegs |-> 0]
    /\ xlate_calls = [r \in IoRegs |-> 0]
    /\ panic_site = "none"
    /\ gic_data = [inited |-> TRUE, gicc_base |-> gicc_base,
                   gicd_base |-> gicd_base]
    /\ itr_inited = TRUE

InitSec ==
    /\ GicInitialised
    /\ HukIdle
    /\ TblIdle
    /\ mem = [a \in Regs |-> ZeroWord]
    /\ mem0 = mem
    /\ snap = mem
    /\ pc = [c \in Cores |-> "idle"]
    /\ addr = [c \in Cores |-> 0]
    /\ calls = [c \in Cores |-> 0]
    /\ wlog = [c \in Cores |-> {}]
    /\ dsb_done = FALSE
    /\ sev_count = 0
    /\ csl_start = CSU_CSL_START
    /\ csl_end = CSU_CSL_END
    /\ written = NoWrites
    /\ cfg_boot_secondary = FALSE
    /\ halted = FALSE
    /\ spc = [c \in Cores |-> "idle"]
    /\ cpu_if \in [Cores -> ResetBanks]
    /\ cpu_if0 = cpu_if
    /\ primary_ready = TRUE

\* void main_secondary_init_gic(void) { gic_cpu_init(&gic_data); }
SecEnter(c) ==
    /\ ~halted
    /\ spc[c] = "idle"
    /\ spc' = [spc EXCEPT ![c] = "igroupr"]
    /\ UNCHANGED <<csu_vars, gic_vars, huk_vars, tbl_vars, halted, cpu_if,
                   cpu_if0, primary_ready>>

\* write32(0xffff00ff, gd->gicd_base + GICD_IGROUPR(0))
GicCpuIgroupr(c) ==
    /\ ~halted
    /\ spc[c] = "igroupr"
    /\ cpu_if' = [cpu_if EXCEPT ![BankOf(c)] = WriteIgroupr(@)]
    /\ spc' = [spc EXCEPT ![c] = "pmr"]
    /\ UNCHANGED <<csu_vars, gic_vars, huk_vars, tbl_vars, halted, cpu_if0,
                   primary_ready>>

\* write32(0x80, gd->gicc_base + GICC_PMR)
GicCpuPmr(c) ==
    /\ ~halted
    /\ spc[c] = "pmr"
    /\ cpu_if' = [cpu_if EXCEPT ![BankOf(c)] = WritePmr(@)]
    /\ spc' = [spc EXCEPT ![c] = "ctlr"]
    /\ UNCHANGED <<csu_vars, gic_vars, huk_vars, tbl_vars, halted, cpu_if0,
                   primary_ready>>

\* write32(GICC_CTLR_ENABLEGRP0 | GICC_CTLR_ENABLEGRP1 | GICC_CTLR_FIQEN, gd->gicc_base + GICC_CTLR)
GicCpuCtlr(c) ==
    /\ ~halted
    /\ spc[c] = "ctlr"
    /\ cpu_if' = [cpu_if EXCEPT ![BankOf(c)] = WriteCtlr(@)]
    /\ spc' = [spc EXCEPT ![c] = "done"]
    /\ UNCHANGED <<csu_vars, gic_vars, huk_vars, tbl_vars, halted, cpu_if0,
                   primary_ready>>

gic_cpu_init(c) ==
    \/ GicCpuIgroupr(c)
    \/ GicCpuPmr(c)
    \/ GicCpuCtlr(c)

main_secondary_init_gic(c) ==
    \/ SecEnter(c)
    \/ gic_cpu_init(c)

NextSec == \E c \in Cores : main_secondary_init_gic(c)

SpecSec == InitSec /\ [][NextSec]_vars

(***************************************************************************)
(* C12: when distinct cores are inside main_secondary_init_gic at the same *)
(* time, the CPU-interface registers of each core are, at every step, what *)
(* that core's own writes alone make of their initial contents, so a core  *)
(* that has returned holds the state of a run on its own; the shared       *)
(* gic_data is what gic_init stored.                                       *)
(***************************************************************************)
\* the bank of a core that ran alone up to position p
AloneAt(p, bank) ==
    CASE p = "idle" -> bank
      [] p = "igroupr" -> bank
      [] p = "pmr" -> WriteIgroupr(bank)
      [] p = "ctlr" -> WritePmr(WriteIgroupr(bank))
      [] p = "done" -> WriteCtlr(WritePmr(WriteIgroupr(bank)))

C12_ConcurrentPerCoreInitIndependent ==
    /\ \A c \in Cores : cpu_if[c] = AloneAt(spc[c], cpu_if0[c])
    /\ gic_data = [inited |-> TRUE, gicc_base |-> gicc_base,
                   gicd_base |-> gicd_base]

C12_Witness ==
    /\ \A c \in Cores : spc[c] = "done" /\ cpu_if[c] # cpu_if0[c]
    /\ cpu_if0[0] # cpu_if0[1]

C12_WitnessOverlap ==
    /\ spc[0] = "pmr"
    /\ spc[1] = "ctlr"

(***************************************************************************)
(* Vocabulary of the ordering claims on plat_cpu_reset_late.               *)
(***************************************************************************)
\* some lock bit of the slot word is set
SlotHasLock(w) == \E f \in Fields : FieldLocked(DevView(w), f)

\* no slot had a lock bit set at power-on
PowerOnUnlocked == \A a \in CsuSlots : ~SlotHasLock(mem0[a])

\* the word a slot holds once granted and locked, and once restricted and locked
LockedAllWord == bswap32(Or32(CSU_ACCESS_ALL, CSU_SETTING_LOCK))

LockedSecWord == bswap32(Or32(CSU_ACCESS_SEC_ONLY, CSU_SETTING_LOCK))

\* the slot holds its final permission and both lock bits
SlotFinal(m, a) ==
    m[a] = IF a \in SecureOnlySlots THEN LockedSecWord ELSE LockedAllWord

ScratchReg == DCFG_BASE + DCFG_SCRATCHRW1

ReleaseReg == DCFG_BASE + DCFG_CCSR_BRR

\* a write that can set a lock bit has been issued
LockWriteIssued == written.lock # {}

(***************************************************************************)
(* C13: while plat_cpu_reset_late configures the CSU from a power-on state *)
(* with no slot locked, no slot has a lock bit set unless it holds its     *)
(* final permission (secure-only for CSL30 and CSL37, allow-all for the    *)
(* others); and once a lock write has been issued, the grant loop has      *)
(* written every slot and both secure-only writes have been made.          *)
(***************************************************************************)
C13_NoLockBeforeFinalPermission ==
    /\ PowerOnUnlocked =>
          \A a \in CsuSlots : SlotHasLock(mem[a]) => SlotFinal(mem, a)
    /\ LockWriteIssued =>
          /\ written.grant = CsuSlots
          /\ written.restrict = SecureOnlySlots

C13_Witness ==
    /\ PowerOnUnlocked
    /\ pc[0] = "lock"
    /\ calls[0] = 1
    /\ SlotHasLock(mem[CSU_BASE + CSU_CSL30])
    /\ ~SlotHasLock(mem[CSU_BASE + CSU_CSL37])

(***************************************************************************)
(* C14, as claimed: whenever the wake event has been issued, every slot    *)
(* holds its final permission and is locked.                               *)
(***************************************************************************)
C14_ReleasedOnlyAfterConfiguration ==
    sev_count > 0 => \A a \in CsuSlots : SlotFinal(mem, a)

\* a grant, restrict or lock write has been issued
SlotWriteIssued ==
    written.grant # {} \/ written.restrict # {} \/ LockWriteIssued

(***************************************************************************)
(* C14, amended: in a build with CFG_BOOT_SECONDARY_REQUEST the wake event *)
(* is issued before the first slot is written, so a released secondary     *)
(* core may run while the slots are being configured; it writes no         *)
(* register.  Once core 0 has returned from plat_cpu_reset_late every slot *)
(* is locked, and holds its final permission when no slot was locked at    *)
(* power-on.                                                               *)
(***************************************************************************)
C14_ConfiguredWhenPrimaryReturns ==
    /\ (cfg_boot_secondary /\ SlotWriteIssued) => sev_count > 0
    /\ \A c \in Cores \ {0} : wlog[c] = {}
    /\ Core0Returned =>
          /\ AllSlotsLocked(mem)
          /\ PowerOnUnlocked => \A a \in CsuSlots : SlotFinal(mem, a)

C14_Witness ==
    /\ cfg_boot_secondary
    /\ PowerOnUnlocked
    /\ sev_count = 1
    /\ Core0Returned
    /\ \A c \in Cores \ {0} : pc[c] = "done"
    /\ \A a \in CsuSlots : SlotFinal(mem, a)

\* the wake event is out and a released core has run while a slot is still unlocked
C14_WitnessEarlyRelease ==
    /\ sev_count = 1
    /\ pc[1] = "done"
    /\ pc[0] = "grant"
    /\ \E a \in CsuSlots : ~SlotHasLock(mem[a])

(***************************************************************************)
(* C15: in a build with CFG_BOOT_SECONDARY_REQUEST the release sequence    *)
(* is executed by core 0 only, and it is complete (both DCFG registers     *)
(* written by core 0, barrier executed, wake event issued) in every state  *)
(* in which a lock write of the configurator has been issued.              *)
(***************************************************************************)
SequencerPcs == {SequencerSteps[i] : i \in DOMAIN SequencerSteps}

C15_ReleaseBeforeFirstLockWrite ==
    cfg_boot_secondary =>
        /\ \A c \in Cores \ {0} :
              /\ pc[c] \notin SequencerPcs
              /\ wlog[c] \cap DcfgRegs = {}
        /\ LockWriteIssued =>
              /\ DcfgRegs \subseteq wlog[0]
              /\ dsb_done
              /\ sev_count > 0

C15_Witness ==
    /\ cfg_boot_secondary
    /\ calls[0] = 1
    /\ pc[0] = "lock"
    /\ Cardinality(written.lock) = 1
    /\ sev_count = 1
    /\ calls[1] = 1

(***************************************************************************)
(* C16: the release sequence runs in the order scratch write, release      *)
(* write, barrier, wake event: core 0 is past the scratch write only with  *)
(* the entry address in the scratch register, past the release write only  *)
(* with the cpu1 mask in the release register, and at the wake event only  *)
(* after the barrier; whenever the release register has been written or    *)
(* the wake event issued, the scratch register (big-endian) holds          *)
(* TEE_LOAD_ADDR.                                                          *)
(***************************************************************************)
ScratchHoldsEntry == DevView(mem[ScratchReg]) = TEE_LOAD_ADDR

ReleaseWritten == \E c \in Cores : ReleaseReg \in wlog[c]

C16_SequencerOrder ==
    /\ (ReleaseWritten \/ sev_count > 0) => ScratchHoldsEntry
    /\ pc[0] \in {"release", "dsb", "sev"} => ScratchHoldsEntry
    /\ pc[0] \in {"dsb", "sev"} => DevView(mem[ReleaseReg]) = W(0, 0, 0, 2)
    /\ pc[0] = "sev" => dsb_done
    /\ dsb_done => ReleaseWritten
    /\ sev_count > 0 => dsb_done

C16_Witness ==
    /\ cfg_boot_secondary
    /\ calls[0] = 1
    /\ sev_count = 1
    /\ pc[0] = "grant_init"
    /\ ScratchHoldsEntry
    /\ ReleaseWritten

(***************************************************************************)
(* The boot sequence around the functions of this file: every core runs    *)
(* plat_cpu_reset_late when it leaves reset; the primary core then runs    *)
(* main_init_gic and finishes its initialization; a secondary core waits   *)
(* for that before it runs main_secondary_init_gic.                        *)
(***************************************************************************)
\* bit c of the release register, as the big-endian device sees it
ReleaseBit(c) == (DevView(mem[ReleaseReg])[4] \div (2 ^ c)) % 2 = 1

\* core c has left reset: core 0 at power-on; the others when the release
\* sequence has selected and woken them, or on their own in a build without
\* CFG_BOOT_SECONDARY_REQUEST
Released(c) ==
    \/ c = 0
    \/ ~cfg_boot_secondary
    \/ (sev_count > 0 /\ ReleaseBit(c))

wait_primary_none(c) == TRUE

\* a secondary core goes on to its own initialization when the primary is ready
wait_primary(c) == primary_ready

AllMapped == IoRegs \cup GicPas

\* build variant, translation tables and register contents the boot is followed for
BootConfigs ==
    { [flavor |-> "gicv2", xlate |-> AllMapped, svr |-> ZeroWord, align |-> ZeroWord],
      [flavor |-> "gicv3", xlate |-> AllMapped, svr |-> ZeroWord, align |-> ZeroWord],
      [flavor |-> "gicv2", xlate |-> AllMapped \ {GIC_BASE + GICC_OFFSET},
       svr |-> ZeroWord, align |-> ZeroWord],
      [flavor |-> "gicv3", xlate |-> AllMapped \ {GIC_BASE + GICD_OFFSET},
       svr |-> ZeroWord, align |-> ZeroWord],
      [flavor |-> "ls1043ardb", xlate |-> AllMapped \ {SvrPa},
       svr |-> bswap32(W(135, 146, 0, 17)), align |-> bswap32(W(128, 0, 0, 0))],
      [flavor |-> "ls1043ardb", xlate |-> AllMapped \ {AlignPa},
       svr |-> bswap32(W(135, 146, 0, 17)), align |-> ZeroWord],
      [flavor |-> "ls1043ardb", xlate |-> AllMapped,
       svr |-> bswap32(W(135, 146, 0, 16)), align |-> ZeroWord] }

InitBoot ==
    /\ HukIdle
    /\ TblIdle
    /\ mem = [a \in Regs |-> ZeroWord]
    /\ mem0 = mem
    /\ snap = mem
    /\ pc = [c \in Cores |-> "idle"]
    /\ addr = [c \in Cores |-> 0]
    /\ calls = [c \in Cores |-> 0]
    /\ wlog = [c \in Cores |-> {}]
    /\ dsb_done = FALSE
    /\ sev_count = 0
    /\ csl_start = CSU_CSL_START
    /\ csl_end = CSU_CSL_END
    /\ written = NoWrites
    /\ cfg_boot_secondary \in BOOLEAN
    /\ halted = FALSE
    /\ \E b \in BootConfigs :
          /\ flavor = b.flavor
          /\ xlate = b.xlate
          /\ io = [r \in IoRegs |-> IF r = SvrPa THEN b.svr ELSE b.align]
    /\ va_off = 0
    /\ gpc = "idle"
    /\ ccsr_svr = 0
    /\ gic_align = 0
    /\ val = ZeroWord
    /\ gicc_base = 0
    /\ gicd_base = 0
    /\ base_pa = <<0, 0>>
    /\ map_calls = [r \in IoRegs |-> 0]
    /\ xlate_calls = [r \in IoRegs |-> 0]
    /\ panic_site = "none"
    /\ gic_data = [inited |-> FALSE, gicc_base |-> 0, gicd_base |-> 0]
    /\ itr_inited = FALSE
    /\ spc = [c \in Cores |-> "idle"]
    /\ \E b \in ResetBanks : cpu_if = [c \in Cores |-> b]
    /\ cpu_if0 = cpu_if
    /\ primary_ready = FALSE

\* core c leaves reset and enters plat_cpu_reset_late
BootReset(c) ==
    /\ Released(c)
    /\ calls[c] = 0
    /\ Call(c)

\* the primary core, back from plat_cpu_reset_late, runs main_init_gic
BootInitGic ==
    /\ pc[0] = "done"
    /\ main_init_gic

\* the primary core has finished its initialization
PrimaryDone ==
    /\ ~halted
    /\ gpc = "done"
    /\ ~primary_ready
    /\ primary_ready' = TRUE
    /\ UNCHANGED <<csu_vars, gic_vars, huk_vars, tbl_vars, halted, spc, cpu_if,
                   cpu_if0>>

\* a secondary core, back from plat_cpu_reset_late, runs main_secondary_init_gic
BootSecondaryInit(c) ==
    /\ c # 0
    /\ pc[c] = "done"
    /\ wait_primary(c)
    /\ main_secondary_init_gic(c)

NextBoot ==
    \/ \E c \in Cores : BootReset(c)
    \/ \E c \in Cores : plat_cpu_reset_late(c)
    \/ BootInitGic
    \/ PrimaryDone
    \/ \E c \in Cores : BootSecondaryInit(c)

SpecBoot == InitBoot /\ [][NextBoot]_vars

C17_WitnessSecondaryWaits ==
    /\ cfg_boot_secondary
    /\ pc[1] = "done"
    /\ pc[0] = "grant"
    /\ gpc = "idle"
    /\ spc[1] = "idle"

(***************************************************************************)
(* C18: every invocation of tee_otp_get_hw_unique_key issues exactly one   *)
(* secure monitor call: none before the call statement, one from then on;  *)
(* and what an invocation returns and leaves at the destination is fixed   *)
(* by its own call result and scratch buffer and the destination as it     *)
(* found it, whatever earlier invocations did.                             *)
(***************************************************************************)
C18_OneCallPerInvocation ==
    /\ hpc = "smc" => smc_calls = 0
    /\ hpc \in {"test", "return", "done"} => smc_calls = 1
    /\ KeyCallReturned =>
          /\ res = IF ret < 0 THEN TEE_ERROR_SECURITY ELSE TEE_SUCCESS
          /\ \A i \in DOMAIN hwkey :
                hwkey[i] = IF ret < 0 \/ i \notin KeyBytes THEN hwkey0[i]
                           ELSE hw_unq_key[i]

\* a second invocation fails after a first one that succeeded
C18_Witness ==
    /\ huk_calls = 2
    /\ KeyCallReturned
    /\ smc_calls = 1
    /\ ret < 0
    /\ res = TEE_ERROR_SECURITY
    /\ hwkey0 \notin CallerFills

(***************************************************************************)
(* plat_cpu_reset_late for other values of CSU_CSL_START and CSU_CSL_END:  *)
(* the same actions, started with a range whose length is a non-negative   *)
(* multiple of 4 (the whole block, an empty range, ranges without CSL30    *)
(* and CSL37, a range that holds just the two).                            *)
(***************************************************************************)
RangePairs ==
    { <<CSU_CSL_START, CSU_CSL_END>>, <<CSU_CSL_START, CSU_CSL_START>>,
      <<CSU_CSL_START + 8, CSU_CSL_START + 16>>, <<CSU_CSL30 + 4, CSU_CSL37>>,
      <<CSU_CSL30, CSU_CSL37 + 4>>, <<CSU_CSL_END - 4, CSU_CSL_END>> }

InitRange ==
    /\ GicIdle
    /\ HukIdle
    /\ TblIdle
    /\ SecIdle
    /\ \E r \in ResetWords : mem = [a \in Regs |-> IF a \in CsuRegs THEN r ELSE ZeroWord]
    /\ mem0 = mem
    /\ snap = mem
    /\ pc = [c \in Cores |-> "idle"]
    /\ addr = [c \in Cores |-> 0]
    /\ calls = [c \in Cores |-> 0]
    /\ wlog = [c \in Cores |-> {}]
    /\ dsb_done = FALSE
    /\ sev_count = 0
    /\ \E p \in RangePairs : csl_start = p[1] /\ csl_end = p[2]
    /\ written = NoWrites
    /\ cfg_boot_secondary \in BOOLEAN
    /\ halted = FALSE

SpecRange == InitRange /\ [][NextCsu]_vars

\* the slots at START, START+4, ..., END-4 of the build's range
RangeSlots ==
    {CSU_BASE + o : o \in {x \in csl_start .. (csl_end - 1) : (x - csl_start) % 4 = 0}}

\* the slots of the range below address a
RangeBelow(a) == {x \in RangeSlots : x < a}

(***************************************************************************)
(* C19: when CSU_CSL_END - CSU_CSL_START is a non-negative multiple of 4,  *)
(* the loop variable of the grant loop and of the lock loop stays on the   *)
(* slots START, START+4, ..., END-4 and the end address, each loop has     *)
(* written exactly the slots below its loop variable, and the function     *)
(* can always take its next step, so both loops end; after the return      *)
(* both loops have written exactly those slots.  Neither loop writes the   *)
(* word at CSU_CSL_END, and no register outside the range (CSL30 and CSL37 *)
(* included when they lie outside) gets a lock bit it did not have.        *)
(***************************************************************************)
C19_LoopsVisitHalfOpenRange ==
    /\ (csl_end - csl_start) % 4 = 0 /\ csl_end >= csl_start
    /\ written.grant \subseteq RangeSlots
    /\ written.lock \subseteq RangeSlots
    /\ CSU_BASE + csl_end \notin written.grant \cup written.lock
    /\ \A c \in Cores :
          pc[c] \in {"grant", "lock"} => addr[c] \in RangeSlots \cup {CSU_BASE + csl_end}
    /\ (pc[0] = "grant" /\ calls[0] = 1) => written.grant = RangeBelow(addr[0])
    /\ (pc[0] = "lock" /\ calls[0] = 1) =>
          /\ written.grant = RangeSlots
          /\ written.lock = RangeBelow(addr[0])
    /\ (pc[0] \notin {"idle", "done"} /\ ~halted) => ENABLED plat_cpu_reset_late(0)
    /\ Core0Returned => (written.grant = RangeSlots /\ written.lock = RangeSlots)
    /\ \A a \in CsuRegs \ RangeSlots : \A f \in Fields :
          FieldLocked(DevView(mem[a]), f) => FieldLocked(DevView(mem0[a]), f)

\* a range that leaves CSL30 and CSL37 out: both are restricted, neither is locked
C19_Witness ==
    /\ csl_start = CSU_CSL30 + 4
    /\ csl_end = CSU_CSL37
    /\ Core0Returned
    /\ written.lock = RangeSlots
    /\ Cardinality(RangeSlots) = 6
    /\ \A a \in RangeSlots : SlotHasLock(mem[a])
    /\ \A a \in SecureOnlySlots : mem[a] = RestrictValue /\ ~SlotHasLock(mem[a])

\* the empty range: both loops end without a write
C19_WitnessEmptyRange ==
    /\ csl_start = csl_end
    /\ Core0Returned
    /\ written.grant = {}
    /\ written.lock = {}

====
